---- MODULE Spec2Model ----
(***************************************************************************)
(* Fenwick tree (binary indexed tree) library: the index-sequence          *)
(* generators of src/src/index.rs (the module the crate exports) and of    *)
(* src/src/index_iter.rs (the earlier struct-based iterators), lowbit of   *)
(* src/src/lowbit.rs, and update / prefix_sum of src/src/array.rs.         *)
(*                                                                         *)
(* usize is modelled as an unsigned integer of UsizeBits bits with the     *)
(* arithmetic of the source: wrapping_add / wrapping_sub are modular, the  *)
(* plain `+ 1` of index.rs line 113 is a checked add (it panics in a build *)
(* with overflow checks and wraps in one without).  The value type T of    *)
(* the Fenwick array is modelled by the integers.                          *)
(***************************************************************************)
EXTENDS Integers, Sequences

VARIABLES fenwick, a, nops, call

vars == <<fenwick, a, nops, call>>

(* ----------------------------- bounds ---------------------------------- *)

\* width of usize in the model
UsizeBits == 4
\* largest length of the Fenwick array
MaxLen == 9
\* largest number of update calls in one run
MaxOps == 2

(* ------------------------ unsigned arithmetic -------------------------- *)

Modulus == 2 ^ UsizeBits

max_value == Modulus - 1

Usize == 0 .. max_value

\* the deltas handed to update
Deltas == {-1, 3}

\* the two kinds of build: with and without overflow checks
Builds == {"debug", "release"}

wrapping_add(x, y) == (x + y) % Modulus

wrapping_sub(x, y) == (x - y + Modulus) % Modulus

RECURSIVE BitAnd(_, _)
BitAnd(x, y) ==
    IF x = 0 \/ y = 0 THEN 0
    ELSE (IF x % 2 = 1 /\ y % 2 = 1 THEN 1 ELSE 0) + 2 * BitAnd(x \div 2, y \div 2)

RECURSIVE BitOr(_, _)
BitOr(x, y) ==
    IF x = 0 THEN y
    ELSE IF y = 0 THEN x
    ELSE (IF x % 2 = 1 \/ y % 2 = 1 THEN 1 ELSE 0) + 2 * BitOr(x \div 2, y \div 2)

\* `!x` on usize
BitNot(x) == max_value - x

\* `x >> 1`
Shr1(x) == x \div 2

RECURSIVE trailing_zeros(_)
trailing_zeros(x) ==
    IF x = 0 THEN UsizeBits
    ELSE IF x % 2 = 1 THEN 0
    ELSE 1 + trailing_zeros(x \div 2)

(* --------------------------- lowbit.rs --------------------------------- *)

lowbit_no_increment(x) == BitAnd(x, BitNot(x))

lowbit(x) == BitAnd(x, wrapping_add(BitNot(x), 1))

(* ------------------- outcome of draining an iterator ------------------- *)
(* A successor closure and a cursor test or step are functions on usize.   *)
(* seq: the items yielded, in order; panicked: the call or a step          *)
(* panicked; overflow: a checked add overflowed; diverged: the iterator    *)
(* yielded more than Modulus items, so (its cursor being a usize and each  *)
(* step a function of the cursor) it never ends.                           *)

Outcome(p, s, d, o) == [panicked |-> p, seq |-> s, diverged |-> d, overflow |-> o]

Panic == Outcome(TRUE, <<>>, FALSE, FALSE)

Fuel == Modulus + 1

None == [tag |-> "None", val |-> 0, ovf |-> FALSE]

Some(x) == [tag |-> "Some", val |-> x, ovf |-> FALSE]

\* std::iter::successors(Some(item), succ), drained
RECURSIVE successors_from(_, _, _)
successors_from(item, succ, fuel) ==
    IF fuel = 0 THEN Outcome(FALSE, <<>>, TRUE, FALSE)
    ELSE LET s == succ[item] IN
         CASE s.tag = "Panic" -> Outcome(TRUE, <<>>, FALSE, TRUE)
           [] s.tag = "None" -> Outcome(FALSE, <<item>>, FALSE, FALSE)
           [] OTHER ->
                LET r == successors_from(s.val, succ, fuel - 1)
                IN Outcome(r.panicked, <<item>> \o r.seq, r.diverged, s.ovf \/ r.overflow)

successors(first, succ) == successors_from(first, succ, Fuel)

\* a struct iterator whose next() yields the cursor x while cont[x] and
\* moves the cursor to step[x], drained
RECURSIVE cursor_from(_, _, _, _)
cursor_from(x, cont, step, fuel) ==
    IF ~cont[x] THEN Outcome(FALSE, <<>>, FALSE, FALSE)
    ELSE IF fuel = 0 THEN Outcome(FALSE, <<>>, TRUE, FALSE)
    ELSE LET r == cursor_from(step[x], cont, step, fuel - 1)
         IN Outcome(FALSE, <<x>> \o r.seq, r.diverged, FALSE)

cursor(x, cont, step) == cursor_from(x, cont, step, Fuel)

(* ----------------------- index.rs: one_based --------------------------- *)

one_based_next_down_plain_sub(i) == wrapping_sub(i, 1)

one_based_next_down(i) == BitAnd(i, wrapping_sub(i, 1))

one_based_down_unchecked(init) == TRUE

\* assert!(1 <= init)
one_based_down_assert(init) == 1 <= init

one_based_down_closure(i) ==
    LET next == one_based_next_down(i)
    IN IF next > 0 THEN Some(next) ELSE None

one_based_down(init) ==
    IF ~one_based_down_assert(init) THEN Panic
    ELSE successors(init, [i \in Usize |-> one_based_down_closure(i)])

\* (i | i.wrapping_sub(1)) + 1, as an integer: a value above max_value is
\* an overflow of the `+ 1`
one_based_next_up(i) == BitOr(i, wrapping_sub(i, 1)) + 1

one_based_up_no_limit_assert(init, limit_inclusive) ==
    /\ 1 <= init
    /\ init <= limit_inclusive

\* the three assert! of up
one_based_up_assert(init, limit_inclusive) ==
    /\ 1 <= init
    /\ init <= limit_inclusive
    /\ limit_inclusive <= Shr1(max_value)

one_based_up_closure_strict(i, limit_inclusive, build) ==
    LET next == one_based_next_up(i)
    IN IF next > max_value
       THEN IF build = "debug" THEN [tag |-> "Panic", val |-> 0, ovf |-> TRUE]
            ELSE IF next % Modulus < limit_inclusive
                 THEN [tag |-> "Some", val |-> next % Modulus, ovf |-> TRUE]
                 ELSE [tag |-> "None", val |-> 0, ovf |-> TRUE]
       ELSE IF next < limit_inclusive THEN Some(next) ELSE None

one_based_up_closure(i, limit_inclusive, build) ==
    LET next == one_based_next_up(i)
    IN IF next > max_value
       THEN IF build = "debug" THEN [tag |-> "Panic", val |-> 0, ovf |-> TRUE]
            ELSE IF next % Modulus <= limit_inclusive
                 THEN [tag |-> "Some", val |-> next % Modulus, ovf |-> TRUE]
                 ELSE [tag |-> "None", val |-> 0, ovf |-> TRUE]
       ELSE IF next <= limit_inclusive THEN Some(next) ELSE None

one_based_up(init, limit_inclusive, build) ==
    IF ~one_based_up_assert(init, limit_inclusive) THEN Panic
    ELSE successors(init,
             [i \in Usize |-> one_based_up_closure(i, limit_inclusive, build)])

(* ----------------------- index.rs: zero_based -------------------------- *)

zero_based_next_down_no_step_back(i) == BitAnd(i, wrapping_add(i, 1))

zero_based_next_down(i) == wrapping_sub(BitAnd(i, wrapping_add(i, 1)), 1)

zero_based_down_unchecked(init) == TRUE

\* assert_ne!(init, !0)
zero_based_down_assert(init) == init # BitNot(0)

zero_based_down_closure(i) ==
    LET next == zero_based_next_down(i)
    IN IF next # BitNot(0) THEN Some(next) ELSE None

zero_based_down(init) ==
    IF ~zero_based_down_assert(init) THEN Panic
    ELSE successors(init, [i \in Usize |-> zero_based_down_closure(i)])

zero_based_next_up_increment(i) == wrapping_add(i, 1)

zero_based_next_up(i) == BitOr(i, wrapping_add(i, 1))

\* assert!(init < limit_exclusive)
zero_based_up_assert(init, limit_exclusive) == init < limit_exclusive

\* an out-of-range init ends in an empty sequence, not in a panic
zero_based_up_silent(init, limit_exclusive) ==
    cursor(init, [x \in Usize |-> x < limit_exclusive],
                 [x \in Usize |-> BitOr(x, wrapping_add(x, 1))])

zero_based_up_closure_inclusive(i, limit_exclusive) ==
    LET next == zero_based_next_up(i)
    IN IF next <= limit_exclusive THEN Some(next) ELSE None

zero_based_up_closure(i, limit_exclusive) ==
    LET next == zero_based_next_up(i)
    IN IF next < limit_exclusive THEN Some(next) ELSE None

zero_based_up(init, limit_exclusive) ==
    IF ~zero_based_up_assert(init, limit_exclusive) THEN Panic
    ELSE successors(init,
             [i \in Usize |-> zero_based_up_closure(i, limit_exclusive)])

(* -------------------- index_iter.rs: one_based ------------------------- *)

iter_one_based_next_down(x) == BitAnd(x, wrapping_sub(x, 1))

\* Down(init), drained: next() yields x while x != 0
iter_one_based_down(init) ==
    cursor(init, [x \in Usize |-> x # 0],
                 [x \in Usize |-> iter_one_based_next_down(x)])

iter_one_based_next_up(x) == wrapping_add(BitOr(x, wrapping_sub(x, 1)), 1)

\* Up { curr: init, limit_inclusive }, drained
iter_one_based_up(init, limit_inclusive) ==
    cursor(init, [x \in Usize |-> x <= limit_inclusive],
                 [x \in Usize |-> iter_one_based_next_up(x)])

(* -------------------- index_iter.rs: zero_based ------------------------ *)

iter_zero_based_next_down(x) == wrapping_sub(BitAnd(x, wrapping_add(x, 1)), 1)

\* Down(init), drained: next() yields x while x != !0
iter_zero_based_down(init) ==
    cursor(init, [x \in Usize |-> x # BitNot(0)],
                 [x \in Usize |-> iter_zero_based_next_down(x)])

iter_zero_based_next_up(x) == BitOr(x, wrapping_add(x, 1))

\* Up { curr: init, limit_exclusive }, drained
iter_zero_based_up(init, limit_exclusive) ==
    cursor(init, [x \in Usize |-> x < limit_exclusive],
                 [x \in Usize |-> iter_zero_based_next_up(x)])

(* ----------------------------- array.rs -------------------------------- *)

Result(arr, p, v) == [arr |-> arr, panicked |-> p, value |-> v]

\* the body of update's loop over the positions seq: fenwick[ii] += delta,
\* where indexing a slice out of bounds panics
RECURSIVE add_assign_each(_, _, _)
add_assign_each(arr, seq, delta) ==
    IF seq = <<>> THEN Result(arr, FALSE, 0)
    ELSE LET ii == Head(seq) IN
         IF ii >= Len(arr) THEN Result(arr, TRUE, 0)
         ELSE add_assign_each([arr EXCEPT ![ii + 1] = @ + delta], Tail(seq), delta)

\* the array treated as the logical array: only slot i is touched
update_single_slot(fw, i, delta) ==
    IF ~zero_based_up_assert(i, Len(fw)) THEN Result(fw, TRUE, 0)
    ELSE Result([fw EXCEPT ![i + 1] = @ + delta], FALSE, 0)

update(fw, i, delta) ==
    LET seq_up == zero_based_up(i, Len(fw))
    IN IF seq_up.panicked THEN Result(fw, TRUE, 0)
       ELSE add_assign_each(fw, seq_up.seq, delta)

\* the body of prefix_sum's loop: sum += fenwick[ii]
RECURSIVE sum_each(_, _, _)
sum_each(arr, seq, sum) ==
    IF seq = <<>> THEN Result(arr, FALSE, sum)
    ELSE LET ii == Head(seq) IN
         IF ii >= Len(arr) THEN Result(arr, TRUE, sum)
         ELSE sum_each(arr, Tail(seq), sum + arr[ii + 1])

prefix_sum(fw, i) ==
    LET seq_dn == zero_based_down(i)
    IN IF seq_dn.panicked THEN Result(fw, TRUE, 0)
       ELSE sum_each(fw, seq_dn.seq, 0)

(* ------------------------- the state machine --------------------------- *)
(* fenwick: the backing array of the Fenwick tree; a: the logical array,   *)
(* to which each update that returned was applied as a[i] += delta; nops:  *)
(* the number of update calls made; call: the last call and its outcome.   *)

NoCall == [fn |-> "none"]

Zeros(n) == [k \in 1 .. n |-> 0]

\* let fw = &mut [0; n]
Init ==
    /\ \E n \in 0 .. MaxLen : fenwick = Zeros(n) /\ a = Zeros(n)
    /\ nops = 0
    /\ call = NoCall

\* no array: the index generators and lowbit are called on their own
InitIndex ==
    /\ fenwick = <<>>
    /\ a = <<>>
    /\ nops = 0
    /\ call = NoCall

Update(i, delta) ==
    /\ nops < MaxOps
    /\ LET r == update(fenwick, i, delta)
       IN /\ fenwick' = r.arr
          /\ a' = IF r.panicked THEN a ELSE [a EXCEPT ![i + 1] = @ + delta]
          /\ call' = [fn |-> "array::update", i |-> i, delta |-> delta,
                      pre |-> fenwick, panicked |-> r.panicked, value |-> 0]
    /\ nops' = nops + 1

PrefixSum(i) ==
    /\ LET r == prefix_sum(fenwick, i)
       IN call' = [fn |-> "array::prefix_sum", i |-> i, delta |-> 0,
                   pre |-> fenwick, panicked |-> r.panicked, value |-> r.value]
    /\ UNCHANGED <<fenwick, a, nops>>

Called(fn, init, limit, build, res) ==
    [fn |-> fn, init |-> init, limit |-> limit, build |-> build, res |-> res]

OneBasedDown(init) ==
    /\ call = NoCall
    /\ call' = Called("index::one_based::down", init, 0, "any", one_based_down(init))
    /\ UNCHANGED <<fenwick, a, nops>>

OneBasedUp(init, limit, build) ==
    /\ call = NoCall
    /\ call' = Called("index::one_based::up", init, limit, build,
                      one_based_up(init, limit, build))
    /\ UNCHANGED <<fenwick, a, nops>>

ZeroBasedDown(init) ==
    /\ call = NoCall
    /\ call' = Called("index::zero_based::down", init, 0, "any", zero_based_down(init))
    /\ UNCHANGED <<fenwick, a, nops>>

ZeroBasedUp(init, limit) ==
    /\ call = NoCall
    /\ call' = Called("index::zero_based::up", init, limit, "any",
                      zero_based_up(init, limit))
    /\ UNCHANGED <<fenwick, a, nops>>

IterOneBasedDown(init) ==
    /\ call = NoCall
    /\ call' = Called("index_iter::one_based::down", init, 0, "any",
                      iter_one_based_down(init))
    /\ UNCHANGED <<fenwick, a, nops>>

IterOneBasedUp(init, limit) ==
    /\ call = NoCall
    /\ call' = Called("index_iter::one_based::up", init, limit, "any",
                      iter_one_based_up(init, limit))
    /\ UNCHANGED <<fenwick, a, nops>>

IterZeroBasedDown(init) ==
    /\ call = NoCall
    /\ call' = Called("index_iter::zero_based::down", init, 0, "any",
                      iter_zero_based_down(init))
    /\ UNCHANGED <<fenwick, a, nops>>

IterZeroBasedUp(init, limit) ==
    /\ call = NoCall
    /\ call' = Called("index_iter::zero_based::up", init, limit, "any",
                      iter_zero_based_up(init, limit))
    /\ UNCHANGED <<fenwick, a, nops>>

Lowbit(x) ==
    /\ call = NoCall
    /\ call' = Called("lowbit", x, 0, "any", lowbit(x))
    /\ UNCHANGED <<fenwick, a, nops>>

\* the indices handed to update and prefix_sum: every index of the longest
\* array, the two past it, and the all-ones value
Indices == {i \in Usize : i <= MaxLen + 1 \/ i = max_value}

Next ==
    \/ \E i \in Indices, delta \in Deltas : Update(i, delta)
    \/ \E i \in Indices : PrefixSum(i)

NextIndex ==
    \/ \E init \in Usize : OneBasedDown(init)
    \/ \E init \in Usize, limit \in Usize, build \in Builds : OneBasedUp(init, limit, build)
    \/ \E init \in Usize : ZeroBasedDown(init)
    \/ \E init \in Usize, limit \in Usize : ZeroBasedUp(init, limit)
    \/ \E init \in Usize : IterOneBasedDown(init)
    \/ \E init \in Usize, limit \in Usize : IterOneBasedUp(init, limit)
    \/ \E init \in Usize : IterZeroBasedDown(init)
    \/ \E init \in Usize, limit \in Usize : IterZeroBasedUp(init, limit)
    \/ \E x \in Usize : Lowbit(x)

\* update and prefix_sum on a caller's array
Spec == Init /\ [][Next]_vars

\* the index generators and lowbit
SpecIndex == InitIndex /\ [][NextIndex]_vars

(* ------------------------ helpers of the claims ------------------------ *)

Range(s) == {s[k] : k \in 1 .. Len(s)}

Decremented(s) == [k \in 1 .. Len(s) |-> s[k] - 1]

StrictlyIncreasing(s) == \A k \in 1 .. Len(s) - 1 : s[k] < s[k + 1]

StrictlyDecreasing(s) == \A k \in 1 .. Len(s) - 1 : s[k] > s[k + 1]

Ended(r) == ~r.panicked /\ ~r.diverged /\ ~r.overflow

\* a[0] + ... + a[i] of the logical array
RECURSIVE RunningSum(_, _)
RunningSum(arr, i) == IF i < 0 THEN 0 ELSE arr[i + 1] + RunningSum(arr, i - 1)

\* the number of set bits of x
RECURSIVE count_ones(_)
count_ones(x) == IF x = 0 THEN 0 ELSE (x % 2) + count_ones(x \div 2)

\* 1 << x.trailing_zeros(), for x != 0
LowestSetBit(x) == 2 ^ trailing_zeros(x)

(* ------------------------------ claims --------------------------------- *)

\* C1: update/query duality.  After any sequence of update calls on an
\* all-zero array of length N, prefix_sum(fenwick, i) returns, for every i in
\* [0, N), the running sum a[0] + ... + a[i] of the logical array to which
\* the same deltas were applied directly.
C1_UpdateQueryDuality ==
    \A i \in 0 .. Len(fenwick) - 1 :
        LET r == prefix_sum(fenwick, i)
        IN ~r.panicked /\ r.value = RunningSum(a, i)

\* C1 witness: length 5, index 0 updated twice (3 then -1, or -1 then 3) and
\* the sum up to the last index is their total.
C1_Witness ==
    /\ Len(fenwick) = 5
    /\ nops = 2
    /\ a = <<2, 0, 0, 0, 0>>
    /\ prefix_sum(fenwick, 4).value = 2

\* C2: for every i whose successor i + 1 is a usize, zero_based::down(i) is
\* one_based::down(i + 1) with every element decremented by 1: same length,
\* same order (in index.rs and in index_iter.rs).
C2_DownEquivalence ==
    /\ (call.fn = "index::zero_based::down" /\ call.init < max_value) =>
          LET one == one_based_down(call.init + 1)
          IN /\ Ended(call.res) /\ Ended(one)
             /\ call.res.seq = Decremented(one.seq)
    /\ (call.fn = "index_iter::zero_based::down" /\ call.init < max_value) =>
          LET one == iter_one_based_down(call.init + 1)
          IN /\ Ended(call.res) /\ Ended(one)
             /\ call.res.seq = Decremented(one.seq)

\* C2 witness: zero_based::down(10) = [10, 9, 7], one_based::down(11) = [11, 10, 8].
C2_Witness ==
    /\ call.fn = "index::zero_based::down"
    /\ call.init = 10
    /\ call.res.seq = <<10, 9, 7>>
    /\ one_based_down(11).seq = <<11, 10, 8>>

\* C3 as stated: for every i and every bound L > i, zero_based::up(i, L) is
\* one_based::up(i + 1, L) with every element decremented by 1.
C3_UpEquivalenceAnyLimit ==
    (call.fn = "index::zero_based::up" /\ call.init < call.limit) =>
        \A build \in Builds :
            LET one == one_based_up(call.init + 1, call.limit, build)
            IN /\ Ended(call.res) /\ Ended(one)
               /\ call.res.seq = Decremented(one.seq)

\* C3 as amended: for every i and every bound L with i < L <= max_value / 2,
\* zero_based::up(i, L) is one_based::up(i + 1, L) with every element
\* decremented by 1 (in index.rs, in either build, and in index_iter.rs).
C3_UpEquivalence ==
    /\ (/\ call.fn = "index::zero_based::up"
        /\ call.init < call.limit
        /\ call.limit <= Shr1(max_value)) =>
          \A build \in Builds :
              LET one == one_based_up(call.init + 1, call.limit, build)
              IN /\ Ended(call.res) /\ Ended(one)
                 /\ call.res.seq = Decremented(one.seq)
    /\ (/\ call.fn = "index_iter::zero_based::up"
        /\ call.init < call.limit
        /\ call.limit <= Shr1(max_value)) =>
          LET one == iter_one_based_up(call.init + 1, call.limit)
          IN /\ Ended(call.res) /\ Ended(one)
             /\ call.res.seq = Decremented(one.seq)

\* C3 witness: zero_based::up(0, 7) = [0, 1, 3], one_based::up(1, 7) = [1, 2, 4].
C3_Witness ==
    /\ call.fn = "index::zero_based::up"
    /\ call.init = 0
    /\ call.limit = 7
    /\ call.limit <= Shr1(max_value)
    /\ call.res.seq = <<0, 1, 3>>
    /\ one_based_up(1, 7, "debug").seq = <<1, 2, 4>>

\* C4: update with an index i >= N panics and leaves every slot of the array
\* as it was before the call.
C4_UpdateBadIndexAtomic ==
    (call.fn = "array::update" /\ call.i >= Len(call.pre)) =>
        /\ call.panicked
        /\ fenwick = call.pre

\* C4 witness: an update at i >= N on an array some slot of which an earlier
\* update made non-zero.
C4_Witness ==
    /\ call.fn = "array::update"
    /\ call.i >= Len(call.pre)
    /\ call.panicked
    /\ \E k \in 1 .. Len(fenwick) : fenwick[k] # 0

C7_LowbitDefinition ==
    call.fn = "lowbit" =>
        /\ call.init # 0 => call.res = LowestSetBit(call.init)
        /\ call.init = 0 => call.res = 0

\* C7 witness: lowbit(12) = 4.
C7_Witness ==
    /\ call.fn = "lowbit"
    /\ call.init = 12
    /\ call.res = 4

\* C8: update with i < N returns without a panic, adds delta exactly once to
\* each slot whose position is in zero_based::up(i, N), positions that are
\* strictly increasing and within [i, N), and leaves every other slot as it
\* was; prefix_sum leaves the array as it was.
C8_UpdateEffectAndFrame ==
    /\ (call.fn = "array::update" /\ call.i < Len(call.pre)) =>
          LET n == Len(call.pre)
              up == zero_based_up(call.i, n)
          IN /\ ~call.panicked
             /\ Ended(up)
             /\ StrictlyIncreasing(up.seq)
             /\ \A p \in Range(up.seq) : call.i <= p /\ p < n
             /\ Len(fenwick) = n
             /\ \A p \in 0 .. n - 1 :
                    fenwick[p + 1] =
                        call.pre[p + 1] + (IF p \in Range(up.seq) THEN call.delta ELSE 0)
    /\ call.fn = "array::prefix_sum" => fenwick = call.pre

\* C8 witness: update(fw, 2, 3) on an all-zero array of length 8 added 3 to
\* the slots 2, 3 and 7.
C8_Witness ==
    /\ call.fn = "array::update"
    /\ call.i = 2
    /\ call.delta = 3
    /\ call.pre = Zeros(8)
    /\ fenwick = <<0, 0, 3, 3, 0, 0, 0, 3>>

\* C9: for every init >= 1, one_based::down(init) starts with init, each next
\* element is the previous one without its least-significant set bit, the
\* elements are strictly decreasing and within [1, init], and the sequence
\* ends after exactly popcount(init) elements (index.rs and index_iter.rs).
C9_OneBasedDownPopcount ==
    (call.fn \in {"index::one_based::down", "index_iter::one_based::down"}
        /\ call.init >= 1) =>
        LET s == call.res.seq
        IN /\ Ended(call.res)
           /\ Len(s) = count_ones(call.init)
           /\ s[1] = call.init
           /\ \A k \in 1 .. Len(s) - 1 : s[k + 1] = s[k] - LowestSetBit(s[k])
           /\ StrictlyDecreasing(s)
           /\ \A k \in 1 .. Len(s) : 1 <= s[k] /\ s[k] <= call.init

\* C9 witness: one_based::down(13) = [13, 12, 8].
C9_Witness ==
    /\ call.fn = "index::one_based::down"
    /\ call.init = 13
    /\ call.res.seq = <<13, 12, 8>>

\* C10: no call of index::one_based::up overflows the `+ 1` of next_up; with
\* 1 <= init <= limit_inclusive <= max_value / 2 the sequence starts with
\* init, each next element is (x | (x - 1)) + 1 computed without wrap-around,
\* the elements are strictly increasing and within [init, limit_inclusive],
\* and the sequence stops exactly when the next value exceeds
\* limit_inclusive (index.rs in either build, and index_iter.rs).
C10_OneBasedUpNoOverflow ==
    /\ call.fn = "index::one_based::up" => ~call.res.overflow /\ ~call.res.diverged
    /\ (/\ call.fn \in {"index::one_based::up", "index_iter::one_based::up"}
        /\ 1 <= call.init
        /\ call.init <= call.limit
        /\ call.limit <= Shr1(max_value)) =>
          LET s == call.res.seq
          IN /\ Ended(call.res)
             /\ Len(s) >= 1
             /\ s[1] = call.init
             /\ \A k \in 1 .. Len(s) - 1 :
                    /\ s[k + 1] = s[k] + LowestSetBit(s[k])
                    /\ s[k] + LowestSetBit(s[k]) <= max_value
             /\ StrictlyIncreasing(s)
             /\ \A k \in 1 .. Len(s) : call.init <= s[k] /\ s[k] <= call.limit
             /\ s[Len(s)] + LowestSetBit(s[Len(s)]) > call.limit
             /\ s[Len(s)] + LowestSetBit(s[Len(s)]) <= max_value

\* C10 witness: one_based::up(3, 7) = [3, 4]; the next value, 8, exceeds 7.
C10_Witness ==
    /\ call.fn = "index::one_based::up"
    /\ call.init = 3
    /\ call.limit = 7
    /\ call.limit <= Shr1(max_value)
    /\ call.res.seq = <<3, 4>>

\* the first logical index of the range slot j covers: j & (j + 1)
RangeStart(j) == BitAnd(j, j + 1)

\* C11: Fenwick slot invariant.  After any sequence of update calls on an
\* all-zero array of length N, every slot j in [0, N) holds the sum of the
\* logical elements a[k] for k from j & (j + 1) to j inclusive; and for all
\* i, j < N the position j occurs in zero_based::up(i, N) exactly when
\* j & (j + 1) <= i <= j.
C11_SlotInvariant ==
    LET n == Len(fenwick)
    IN /\ Len(a) = n
       /\ \A j \in 0 .. n - 1 :
              fenwick[j + 1] = RunningSum(a, j) - RunningSum(a, RangeStart(j) - 1)
       /\ \A i \in 0 .. n - 1 :
              LET up == zero_based_up(i, n)
              IN /\ Ended(up)
                 /\ \A j \in 0 .. n - 1 :
                        (j \in Range(up.seq)) <=> (RangeStart(j) <= i /\ i <= j)

\* C11 witness: length 8 after update(fw, 0, 3) and update(fw, 5, -1): slot
\* 7 covers a[0..7] and holds 2, slot 5 covers a[4..5] and holds -1, slot 3
\* covers a[0..3] and holds 3.
C11_Witness ==
    /\ a = <<3, 0, 0, 0, 0, -1, 0, 0>>
    /\ fenwick = <<3, 3, 0, 3, 0, -1, 0, 2>>
    /\ RangeStart(5) = 4
    /\ RangeStart(7) = 0

====
